---- MODULE Spec2Model ----
(***************************************************************************)
(* State-machine model of the two programs of the repository:              *)
(*   CPUWin.cpp   the endurance-mode stress test ("CPUWin")                *)
(*   CPUWin2.cpp  the benchmark-mode five-kernel suite ("CPUWin2")         *)
(*                                                                         *)
(* Conventions                                                             *)
(*  - an affinity mask (DWORD_PTR / KAFFINITY) is the set of its set bit   *)
(*    positions, a subset of 0..MaskBits-1;                                *)
(*  - a double is a pair <<n, d>>: the non-negative rational n/d in lowest *)
(*    terms when d > 0, NaN when <<0,0>>, +infinity when <<1,0>>; rounding *)
(*    of doubles is not modelled;                                          *)
(*  - clock readings are integers (milliseconds in the kernels, seconds in *)
(*    the coordinator of CPUWin).                                          *)
(***************************************************************************)
EXTENDS Integers, Sequences, FiniteSets, TLC

VARIABLES
    prog,            \* which program runs: "CPUWin" | "CPUWin2" | "none"
    platform,        \* what the OS reports: records, query outcomes, process affinity, speeds
    cin,             \* state of the console input stream: "good" | "eof"
    mpc,             \* position of main()
    exitCode,        \* return value of main(), -1 while it runs
    cores,           \* g_cores (CPUWin) / cores (CPUWin2): sequence of CoreInfo
    launched,        \* number of std::thread objects created so far
    joined,          \* number of threads joined so far
    wpc,             \* position of each worker thread, by launch index
    workCount,       \* StressTestWorker's local workCount, by launch index
    g_stopTest,      \* CPUWin: atomic<bool> g_stopTest
    completedCores,  \* CPUWin2: atomic<int> completedCores
    allTestsRunning, \* CPUWin2: atomic<bool> allTestsRunning
    elapsed,         \* CPUWin: whole seconds since startTime, as main's clock reads it
    report,          \* what the report step printed
    hist,            \* history: stores to the stop flag, binds and result writes per worker,
                     \* ComputeWorkload calls that returned with the flag already raised
    kcall,           \* a single kernel invocation under test (kernel specification)
    agg              \* the report step under test (report specification)

vars == <<prog, platform, cin, mpc, exitCode, cores, launched, joined, wpc,
          workCount, g_stopTest, completedCores, allTestsRunning, elapsed,
          report, hist, kcall, agg>>

----------------------------------------------------------------------------
(* Bounds of the model *)

\* largest number of logical processors of a modelled platform
MaxProcs == 2
\* largest number of records the topology query returns
MaxRecords == 2
\* largest EfficiencyClass a record carries
MaxClass == 1
\* a StressTestWorker completes at most this many ComputeWorkload calls
\* before the clock reaches the test duration
MaxWork == 2
\* seconds by which main's clock advances from one modelled reading to the next
TickSeconds == 10
\* largest clock reading (ms) of a kernel invocation under test
MaxClock == 3
\* largest number of clock readings one kernel invocation under test consumes
MaxReads == 4
\* largest number of descriptors handed to a report step on its own
MaxAggCores == 3
\* largest duration_ms argument of a kernel invocation under test
MaxDuration == 2

(* Program constants *)

\* CPUWin.cpp main: const int testDuration = 30 (seconds)
TestDuration == 30
\* CPUWin2.cpp main: int testDuration = 3000 (milliseconds per kernel)
TestDurationMs == 3000
\* width in bits of DWORD_PTR / KAFFINITY on the 64-bit target
MaskBits == 64

Kernels == <<"math", "memory", "branch", "cache", "mixed">>

KernelSet == {Kernels[i] : i \in 1..Len(Kernels)}

----------------------------------------------------------------------------
(* Doubles *)

Gcd[a \in Nat, b \in Nat] == IF b = 0 THEN a ELSE Gcd[b, a % b]

\* a double is a pair <<n, d>>: the value n/d, with d = 0 for NaN and +inf
Doubles == Nat \X Nat

NaN == <<0, 0>>

Inf == <<1, 0>>

\* the double n/d for integers n >= 0, d > 0
Dbl[n \in Nat, d \in Nat] == LET g == Gcd[n, d] IN <<n \div g, d \div g>>

Zero == <<0, 1>>

IsFinite(a) == a[2] > 0

\* IEEE division of non-negative doubles: x/0 is +inf for x > 0 and NaN for x = 0
DDiv[a \in Doubles, b \in Doubles] ==
    IF a = NaN \/ b = NaN THEN NaN
    ELSE IF a = Inf THEN (IF b = Inf THEN NaN ELSE Inf)
    ELSE IF b = Inf THEN Zero
    ELSE IF b[1] = 0 THEN (IF a[1] = 0 THEN NaN ELSE Inf)
    ELSE Dbl[a[1] * b[2], a[2] * b[1]]

\* a > b on doubles: false whenever an operand is NaN
DGt(a, b) ==
    IF a = NaN \/ b = NaN THEN FALSE
    ELSE IF a = Inf THEN b # Inf
    ELSE IF b = Inf THEN FALSE
    ELSE a[1] * b[2] > b[1] * a[2]

----------------------------------------------------------------------------
(* The platform: GetLogicalProcessorInformationEx and SetThreadAffinityMask *)

\* A record shape: a processor core of some class with one or two logical
\* processors (SMT), or a record of another relationship (cache, NUMA node,
\* group), which RelationAll also returns.
Shapes ==
    [rel : {"ProcessorCore"}, class : 0..MaxClass, threads : {1, 2}]
      \cup {[rel |-> "Other", class |-> 0, threads |-> 0]}

RECURSIVE ThreadsOf(_)
ThreadsOf(shapes) ==
    IF shapes = <<>> THEN 0 ELSE Head(shapes).threads + ThreadsOf(Tail(shapes))

\* The records the platform returns for a sequence of shapes: the cores own
\* consecutive logical processors, numbered from `first`.
RECURSIVE RecordsOf(_, _)
RecordsOf(shapes, first) ==
    IF shapes = <<>> THEN <<>>
    ELSE LET s == Head(shapes)
         IN <<[Relationship |-> s.rel,
               EfficiencyClass |-> s.class,
               GroupMask |-> <<first .. (first + s.threads - 1)>>]>>
            \o RecordsOf(Tail(shapes), first + s.threads)

ShapeSeqs ==
    {ss \in UNION {[1..n -> Shapes] : n \in 0..MaxRecords} : ThreadsOf(ss) <= MaxProcs}

Topologies == {RecordsOf(ss, 0) : ss \in ShapeSeqs}

\* the logical processors of a topology
RECURSIVE ProcsOf(_)
ProcsOf(recs) ==
    IF recs = <<>> THEN {}
    ELSE (IF Head(recs).Relationship = "ProcessorCore"
          THEN UNION {Head(recs).GroupMask[g] : g \in 1..Len(Head(recs).GroupMask)}
          ELSE {})
         \cup ProcsOf(Tail(recs))

\* Outcomes of the first call (null buffer): it fails with
\* ERROR_INSUFFICIENT_BUFFER and reports the size ("size"), or fails otherwise.
Query1Outcomes == {"size", "error"}

\* Outcomes of the second call (with the buffer).
Query2Outcomes == {"ok", "error"}

\* a loop iteration of a kernel takes one of these times (ms) on a processor
OpTimes == {TestDurationMs \div 2, TestDurationMs}

\* the setup of a kernel (buffers, random generator) takes one of these times (ms)
SetupTimes == {0, TestDurationMs \div 2}

\* Process affinity masks considered: every processor, or all but the highest
\* (never empty when the platform has a processor).
AffinityChoices(procs) ==
    {a \in {procs} \cup {procs \ {p} : p \in {q \in procs : \A r \in procs : r <= q}} :
        a # {} \/ procs = {}}

\* The platforms a run of program p is checked on.  CPUWin asks for
\* RelationProcessorCore and gets core records only; the timing of the kernels
\* and the process affinity matter to the kernels of CPUWin2 only, and nothing
\* but the query outcome matters when the query fails.
Platforms(p) ==
    {pl \in [records : Topologies, q1 : Query1Outcomes, q2 : Query2Outcomes,
             affinity : SUBSET (0..(MaxProcs - 1)),
             opMs : UNION {[P -> OpTimes] : P \in SUBSET (0..(MaxProcs - 1))},
             setupMs : SetupTimes] :
        /\ DOMAIN pl.opMs = ProcsOf(pl.records)
        /\ pl.affinity \in AffinityChoices(ProcsOf(pl.records))
        /\ p = "CPUWin" =>
              \A r \in 1..Len(pl.records) : pl.records[r].Relationship = "ProcessorCore"
        /\ (p = "CPUWin" \/ pl.q1 # "size" \/ pl.q2 # "ok")
              => /\ pl.setupMs = 0
                 /\ \A q \in DOMAIN pl.opMs : pl.opMs[q] = TestDurationMs
                 /\ pl.affinity = ProcsOf(pl.records)}

\* SetThreadAffinityMask(GetCurrentThread(), mask): nonzero (TRUE) iff the mask
\* is not empty and names only processors of the process affinity mask.
SetThreadAffinityMask(pl, mask) == mask # {} /\ mask \subseteq pl.affinity

----------------------------------------------------------------------------
(* CPUWin.cpp: DetectCPUTopology *)

CoreInfo1(coreId, rec) ==
    [id |-> coreId,
     efficiencyClass |-> rec.EfficiencyClass,
     affinityMask |-> rec.GroupMask[1],
     type |-> IF rec.EfficiencyClass > 0 THEN "P-Core" ELSE "E-Core",
     workCompleted |-> 0,
     score |-> Zero]

\* the while loop over the buffer, coreId counting the core records seen
RECURSIVE ParseTopology(_, _)
ParseTopology(recs, coreId) ==
    IF recs = <<>> THEN <<>>
    ELSE IF Head(recs).Relationship = "ProcessorCore"
         THEN <<CoreInfo1(coreId, Head(recs))>> \o ParseTopology(Tail(recs), coreId + 1)
         ELSE ParseTopology(Tail(recs), coreId)

\* the first call must fail with ERROR_INSUFFICIENT_BUFFER
SizeQueryOk(pl) == pl.q1 = "size"

\* the second call's return value left unchecked
DataQueryOk_Unchecked(pl) == TRUE

\* the second call must succeed
DataQueryOk(pl) == pl.q2 = "ok"

\* a discovery that reports success whatever it found
DetectCPUTopology_AlwaysOk(pl) ==
    [ok |-> TRUE,
     cores |-> IF SizeQueryOk(pl) /\ DataQueryOk(pl)
               THEN ParseTopology(pl.records, 0) ELSE <<>>]

\* [ok |-> the bool returned, cores |-> g_cores afterwards]
DetectCPUTopology(pl) ==
    IF ~SizeQueryOk(pl) THEN [ok |-> FALSE, cores |-> <<>>]
    ELSE IF ~DataQueryOk(pl) THEN [ok |-> FALSE, cores |-> <<>>]
    ELSE LET cs == ParseTopology(pl.records, 0)
         IN [ok |-> cs # <<>>, cores |-> cs]

----------------------------------------------------------------------------
(* CPUWin2.cpp: DetectCPUCores *)

CountSetBits(bitMask) == Cardinality(bitMask)

\* What the build makes of a shift by MaskBits or more (undefined behaviour):
\* the count taken modulo the width, or no bit at all.
ShiftOutcomes == {"wrap", "zero"}

\* (DWORD_PTR)1 << coreId
ShiftOne(coreId, ub) ==
    IF coreId < MaskBits THEN {coreId}
    ELSE IF ub = "wrap" THEN {coreId % MaskBits} ELSE {}

CoreInfo2(coreId, class, ub) ==
    [id |-> coreId,
     logicalCore |-> coreId,
     physicalCore |-> coreId \div 2,
     type |-> IF class = 0 THEN "P-Core" ELSE "E-Core",
     efficiencyClass |-> class,
     mathScore |-> Zero,
     memoryScore |-> Zero,
     branchScore |-> Zero,
     cacheScore |-> Zero,
     mixedScore |-> Zero,
     overallScore |-> Zero,
     avgLatency |-> Zero,
     peakThroughput |-> Zero,
     affinityMask |-> ShiftOne(coreId, ub),
     testComplete |-> FALSE]

\* the loop over j < logicalCount
RECURSIVE CoresOfMask(_, _, _, _)
CoresOfMask(logicalCount, coreId, class, ub) ==
    IF logicalCount = 0 THEN <<>>
    ELSE <<CoreInfo2(coreId, class, ub)>>
         \o CoresOfMask(logicalCount - 1, coreId + 1, class, ub)

\* the loop over i < GroupCount
RECURSIVE CoresOfGroups(_, _, _, _)
CoresOfGroups(masks, coreId, class, ub) ==
    IF masks = <<>> THEN <<>>
    ELSE LET n == CountSetBits(Head(masks))
         IN CoresOfMask(n, coreId, class, ub)
            \o CoresOfGroups(Tail(masks), coreId + n, class, ub)

\* the while loop over the buffer
RECURSIVE ParseCores(_, _, _)
ParseCores(recs, coreId, ub) ==
    IF recs = <<>> THEN <<>>
    ELSE IF Head(recs).Relationship = "ProcessorCore"
         THEN LET cs == CoresOfGroups(Head(recs).GroupMask, coreId,
                                      Head(recs).EfficiencyClass, ub)
              IN cs \o ParseCores(Tail(recs), coreId + Len(cs), ub)
         ELSE ParseCores(Tail(recs), coreId, ub)

\* `length` after the first call, counted in records: the call's result is
\* not looked at, and length stays 0 when it reports no size
LengthAfterSizeQuery(pl) == IF pl.q1 = "size" THEN Len(pl.records) ELSE 0

\* the cores returned; ub resolves the shift when coreId reaches MaskBits
DetectCPUCores(pl, ub) ==
    LET length == LengthAfterSizeQuery(pl)
    IN IF ~DataQueryOk(pl) THEN <<>>
       ELSE ParseCores(SubSeq(pl.records, 1, length), 0, ub)

----------------------------------------------------------------------------
(* More double arithmetic *)

DAdd[a \in Doubles, b \in Doubles] ==
    IF a = NaN \/ b = NaN THEN NaN
    ELSE IF a = Inf \/ b = Inf THEN Inf
    ELSE Dbl[a[1] * b[2] + b[1] * a[2], a[2] * b[2]]

DMul[a \in Doubles, b \in Doubles] ==
    IF a = NaN \/ b = NaN THEN NaN
    ELSE IF a = Inf \/ b = Inf
         THEN (IF a = Zero \/ b = Zero THEN NaN ELSE Inf)
    ELSE Dbl[a[1] * b[1], a[2] * b[2]]

\* a - b for a >= b
DSub[a \in Doubles, b \in Doubles] ==
    IF a = NaN \/ b = NaN THEN NaN
    ELSE IF a = Inf THEN (IF b = Inf THEN NaN ELSE Inf)
    ELSE Dbl[a[1] * b[2] - b[1] * a[2], a[2] * b[2]]

\* std::accumulate(first, last, init) on doubles
RECURSIVE Accumulate(_, _)
Accumulate(scores, init) ==
    IF scores = <<>> THEN init
    ELSE Accumulate(Tail(scores), DAdd[init, Head(scores)])

\* accumulate(...) / scores.size()
Average(scores) == DDiv[Accumulate(scores, Zero), Dbl[Len(scores), 1]]

\* *max_element(first, last) of a non-empty range
RECURSIVE MaxElement(_)
MaxElement(scores) ==
    IF Len(scores) = 1 THEN Head(scores)
    ELSE LET m == MaxElement(Tail(scores))
         IN IF DGt(m, Head(scores)) THEN m ELSE Head(scores)

\* *min_element(first, last) of a non-empty range
RECURSIVE MinElement(_)
MinElement(scores) ==
    IF Len(scores) = 1 THEN Head(scores)
    ELSE LET m == MinElement(Tail(scores))
         IN IF DGt(Head(scores), m) THEN m ELSE Head(scores)

\* the two labels a core can carry
Kinds == {"P-Core", "E-Core"}

\* a ratio that goes the wrong way round
KindRatio_Inverted(pAvg, eAvg) == DDiv[eAvg, pAvg]

\* the ratio line of both reports: pAvg / eAvg
KindRatio(pAvg, eAvg) == DDiv[pAvg, eAvg]

\* no ratio line printed
NoRatio == [present |-> FALSE, value |-> Zero]

----------------------------------------------------------------------------
(* CPUWin2.cpp: the five kernels *)

\* A kernel reads the clock (high_resolution_clock::now()) once for `start`,
\* once per test of the loop condition and once for `actual_end`; rs is the
\* sequence of values these calls return, in order.

\* iterations of `while (now() < end) { ...; operations++; }`, the loop
\* condition reading rs[i], rs[i+1], ...
RECURSIVE LoopOperations(_, _, _)
LoopOperations(rs, i, end) ==
    IF i <= Len(rs) /\ rs[i] < end THEN 1 + LoopOperations(rs, i + 1, end) ELSE 0

\* rs is what one invocation with this duration consumes: the loop ends on a
\* reading at or past the deadline and one more reading follows it
CompleteReadings(duration_ms, rs) ==
    /\ Len(rs) >= 3
    /\ Len(rs) = 3 + LoopOperations(rs, 2, rs[1] + duration_ms)

\* start, end, the loop, actual_end, elapsed and the value returned
TimedLoop(duration_ms, rs) ==
    LET start == rs[1]
        end == start + duration_ms
        operations == LoopOperations(rs, 2, end)
        actual_end == rs[3 + operations]
        elapsedMs == actual_end - start
        \* chrono::duration<double>(actual_end - start).count(): seconds
        elapsedSec == Dbl[elapsedMs, 1000]
    IN [operations |-> operations,
        elapsedMs |-> elapsedMs,
        score |-> DDiv[Dbl[operations, 1], elapsedSec]]

\* The statements of each kernel in source order.  "bind" is the call of
\* SetThreadAffinityMask, "setup" the construction of buffers and of the
\* random generator, "start" the first clock reading.
\* a math kernel that reads its start time before it binds
MathIntensiveTest_LateBind(duration_ms, rs) ==
    [steps |-> <<"start", "bind", "priority", "setup", "loop", "end">>]
      @@ TimedLoop(duration_ms, rs)

MathIntensiveTest(duration_ms, rs) ==
    [steps |-> <<"bind", "priority", "start", "setup", "loop", "end">>]
      @@ TimedLoop(duration_ms, rs)

MemoryIntensiveTest(duration_ms, rs) ==
    [steps |-> <<"bind", "priority", "setup", "start", "loop", "end">>]
      @@ TimedLoop(duration_ms, rs)

BranchIntensiveTest(duration_ms, rs) ==
    [steps |-> <<"bind", "priority", "start", "setup", "loop", "end">>]
      @@ TimedLoop(duration_ms, rs)

CacheIntensiveTest(duration_ms, rs) ==
    [steps |-> <<"bind", "priority", "setup", "start", "loop", "end">>]
      @@ TimedLoop(duration_ms, rs)

MixedWorkloadTest(duration_ms, rs) ==
    [steps |-> <<"bind", "priority", "start", "setup", "loop", "end">>]
      @@ TimedLoop(duration_ms, rs)

Kernel(k, duration_ms, rs) ==
    CASE k = "math" -> MathIntensiveTest(duration_ms, rs)
      [] k = "memory" -> MemoryIntensiveTest(duration_ms, rs)
      [] k = "branch" -> BranchIntensiveTest(duration_ms, rs)
      [] k = "cache" -> CacheIntensiveTest(duration_ms, rs)
      [] k = "mixed" -> MixedWorkloadTest(duration_ms, rs)

\* position of x in the sequence s (0 when absent)
IndexOf(s, x) ==
    IF \E i \in 1..Len(s) : s[i] = x
    THEN CHOOSE i \in 1..Len(s) : s[i] = x /\ \A j \in 1..(i - 1) : s[j] # x
    ELSE 0

\* whether the kernel's setup runs inside its timed window
SetupAfterStart(k) ==
    \E st \in {Kernel(k, 0, <<0, 0, 0>>).steps} :
        IndexOf(st, "start") < IndexOf(st, "setup")

\* Clock readings of the loop on a machine where an iteration takes opMs:
\* the condition is read at t, t + opMs, ... until a reading reaches `end`.
LoopReadings[t \in Nat, end \in Int, opMs \in Nat] ==
    IF t < end THEN <<t>> \o LoopReadings[t + opMs, end, opMs] ELSE <<t>>

\* The readings of one invocation of kernel k started at clock 0 on a machine
\* where the setup takes setupMs and an iteration opMs (reading the clock
\* itself takes no time).
KernelReadings(k, duration_ms, opMs, setupMs) ==
    LET loop == LoopReadings[IF SetupAfterStart(k) THEN setupMs ELSE 0, duration_ms, opMs]
    IN <<0>> \o loop \o <<loop[Len(loop)]>>

----------------------------------------------------------------------------
(* State shared by the two programs *)

NoReport == [printed |-> FALSE, ranked |-> <<>>, stats |-> <<>>, ratio |-> NoRatio]

\* nothing under test in the report specification
NoAgg == [input |-> <<>>, sorted |-> <<>>, runs |-> <<>>]

NoCall == [k |-> "none", duration_ms |-> 0, rs |-> <<>>, returned |-> FALSE,
           operations |-> 0, elapsedMs |-> 0, score |-> Zero]

NoHist == [stores |-> {}, binds |-> <<>>, bindFailed |-> <<>>, writes |-> <<>>,
           late |-> <<>>]

\* history of a run whose discovery returned n cores
HistFor(n) ==
    [stores |-> {},
     binds |-> [i \in 1..n |-> 0],
     bindFailed |-> [i \in 1..n |-> FALSE],
     writes |-> [i \in 1..n |-> [k \in KernelSet |-> 0]],
     late |-> [i \in 1..n |-> 0]]

Workers == 1..Len(cores)

\* a join that only waits for the thread to have been started
ThreadFinished_Detached(i) == i <= launched

\* a join that returns at once, whatever the thread is doing
ThreadFinished_NoWait(i) == TRUE

\* std::thread::join returns once the thread's function has returned
ThreadFinished(i) == wpc[i] = "done"

\* a worker's call of SetThreadAffinityMask, whose result the code drops
RecordBind(h, i, mask) ==
    [h EXCEPT !.binds[i] = @ + 1,
              !.bindFailed[i] = @ \/ ~SetThreadAffinityMask(platform, mask)]

Init ==
    /\ prog \in {"CPUWin", "CPUWin2"}
    /\ platform \in Platforms(prog)
    /\ cin = "good"
    /\ mpc = IF prog = "CPUWin" THEN "detect" ELSE "warning"
    /\ exitCode = -1
    /\ cores = <<>>
    /\ launched = 0
    /\ joined = 0
    /\ wpc = <<>>
    /\ workCount = <<>>
    /\ g_stopTest = FALSE
    /\ completedCores = 0
    /\ allTestsRunning = FALSE
    /\ elapsed = 0
    /\ report = NoReport
    /\ hist = NoHist
    /\ kcall = NoCall
    /\ agg = NoAgg

----------------------------------------------------------------------------
(* CPUWin.cpp: main and StressTestWorker *)

\* what the console can answer: a word starting with this character, or
\* nothing at all (end of input)
Answers == {"C", "c", "n", "eof"}

\* main: DetectCPUTopology, `return 1` on failure, DisplaySystemInfo
StressDetect ==
    /\ prog = "CPUWin" /\ mpc = "detect"
    /\ LET r == DetectCPUTopology(platform)
       IN /\ cores' = r.cores
          /\ wpc' = [i \in 1..Len(r.cores) |-> "idle"]
          /\ workCount' = [i \in 1..Len(r.cores) |-> 0]
          /\ hist' = HistFor(Len(r.cores))
          /\ IF r.ok
             THEN mpc' = "preflight" /\ exitCode' = exitCode
             ELSE mpc' = "exit" /\ exitCode' = 1
    /\ UNCHANGED <<prog, platform, cin, launched, joined, g_stopTest,
                   completedCores, allTestsRunning, elapsed, report, kcall, agg>>

\* PreflightCheck: `char input; cin >> input;` leaves input uninitialized at
\* end of input, so the comparison then reads an indeterminate char
PreflightCheck(answer, indeterminate) ==
    LET ch == IF answer = "eof" THEN indeterminate ELSE answer
    IN ch = "C" \/ ch = "c"

\* main: PreflightCheck, `return 0` when it returns false
StressPreflight ==
    /\ prog = "CPUWin" /\ mpc = "preflight"
    /\ \E answer \in Answers, indeterminate \in Answers \ {"eof"} :
          /\ cin' = IF answer = "eof" THEN "eof" ELSE "good"
          /\ IF PreflightCheck(answer, indeterminate)
             THEN mpc' = "launch" /\ exitCode' = exitCode
             ELSE mpc' = "exit" /\ exitCode' = 0
    /\ UNCHANGED <<prog, platform, cores, launched, joined, wpc, workCount,
                   g_stopTest, completedCores, allTestsRunning, elapsed,
                   report, hist, kcall, agg>>

\* main: `for (auto& core : g_cores) workers.emplace_back(...)`, one turn
\* at a time; after the loop startTime is read
StressLaunch ==
    /\ prog = "CPUWin" /\ mpc = "launch"
    /\ IF launched < Len(cores)
       THEN /\ launched' = launched + 1
            /\ wpc' = [wpc EXCEPT ![launched + 1] = "bind"]
            /\ UNCHANGED <<mpc, elapsed>>
       ELSE /\ mpc' = "progress"
            /\ elapsed' = 0
            /\ UNCHANGED <<launched, wpc>>
    /\ UNCHANGED <<prog, platform, cin, exitCode, cores, joined, workCount,
                   g_stopTest, completedCores, allTestsRunning, report, hist, kcall, agg>>

\* the condition of main's progress loop
\* a loop condition that gives up one tick early
DurationElapsed_Early == elapsed + TickSeconds >= TestDuration

DurationElapsed == elapsed >= TestDuration

\* main: the test of `while (elapsed < testDuration)`, then DrawProgressBar
\* and the sleep, or DrawProgressBar(100) after the loop
StressProgress ==
    /\ prog = "CPUWin" /\ mpc = "progress"
    /\ mpc' = IF DurationElapsed THEN "stop" ELSE "sleep"
    /\ UNCHANGED <<prog, platform, cin, exitCode, cores, launched, joined, wpc,
                   workCount, g_stopTest, completedCores, allTestsRunning,
                   elapsed, report, hist, kcall, agg>>

\* main: this_thread::sleep_for(milliseconds(100)) returns
StressSleep ==
    /\ prog = "CPUWin" /\ mpc = "sleep"
    /\ mpc' = "progress"
    /\ UNCHANGED <<prog, platform, cin, exitCode, cores, launched, joined, wpc,
                   workCount, g_stopTest, completedCores, allTestsRunning,
                   elapsed, report, hist, kcall, agg>>

\* steady_clock advances while main monitors the run
Tick ==
    /\ prog = "CPUWin" /\ mpc \in {"progress", "sleep"}
    /\ elapsed < TestDuration
    /\ elapsed' = elapsed + TickSeconds
    /\ UNCHANGED <<prog, platform, cin, mpc, exitCode, cores, launched, joined,
                   wpc, workCount, g_stopTest, completedCores, allTestsRunning,
                   report, hist, kcall, agg>>

\* main: g_stopTest.store(true)
StressStop ==
    /\ prog = "CPUWin" /\ mpc = "stop"
    /\ g_stopTest' = TRUE
    /\ hist' = [hist EXCEPT !.stores = @ \cup {<<"main", TRUE>>}]
    /\ mpc' = "join"
    /\ UNCHANGED <<prog, platform, cin, exitCode, cores, launched, joined, wpc,
                   workCount, completedCores, allTestsRunning, elapsed, report, kcall, agg>>

\* main: `for (auto& worker : workers) worker.join()`, one turn at a time
StressJoin ==
    /\ prog = "CPUWin" /\ mpc = "join"
    /\ IF joined < launched
       THEN /\ ThreadFinished(joined + 1)
            /\ joined' = joined + 1
            /\ mpc' = mpc
       ELSE /\ mpc' = "report"
            /\ joined' = joined
    /\ UNCHANGED <<prog, platform, cin, exitCode, cores, launched, wpc, workCount,
                   g_stopTest, completedCores, allTestsRunning, elapsed, report,
                   hist, kcall, agg>>

\* scores divided by a divisor that differs from core to core
ScoredCores_OwnDivisor(cs, testDuration) ==
    [i \in 1..Len(cs) |->
        [cs[i] EXCEPT !.score = DDiv[Dbl[cs[i].workCompleted, 1],
                                     Dbl[testDuration + cs[i].id, 1]]]]

\* GenerateReport: the loop that sets core.score and prints one row per core
ScoredCores(cs, testDuration) ==
    [i \in 1..Len(cs) |->
        [cs[i] EXCEPT !.score = DDiv[Dbl[cs[i].workCompleted, 1], Dbl[testDuration, 1]]]]

\* the rows of the per-core table, in the order printed
Rows(cs, field) ==
    [i \in 1..Len(cs) |-> [id |-> cs[i].id, type |-> cs[i].type, score |-> cs[i][field]]]

\* the scores of the cores cs[i] with keep[i] true, in the order of cs
RECURSIVE ScoresWhere(_, _, _)
ScoresWhere(cs, field, keep) ==
    IF cs = <<>> THEN <<>>
    ELSE (IF Head(keep) THEN <<Head(cs)[field]>> ELSE <<>>)
         \o ScoresWhere(Tail(cs), field, Tail(keep))

\* GenerateReport: `if (core.efficiencyClass > 0)` fills pCoreScores
InPCoreScores(core) == core.efficiencyClass > 0

\* GenerateReport: the else branch fills eCoreScores
InECoreScores(core) == ~InPCoreScores(core)

\* average lines printed whether or not the kind has a member
PrintedKinds_Always(pCoreScores, eCoreScores) == Kinds

\* GenerateReport: the average lines printed, one per non-empty vector
PrintedKinds(pCoreScores, eCoreScores) ==
    {k \in Kinds : IF k = "P-Core" THEN pCoreScores # <<>> ELSE eCoreScores # <<>>}

\* GenerateReport: pCoreAvg / eCoreAvg start at 0.0 and are set when the
\* vector is not empty
AverageOrZero(scores) == IF scores = <<>> THEN Zero ELSE Average(scores)

GenerateReport(cs, testDuration) ==
    LET scored == ScoredCores(cs, testDuration)
        pCoreScores == ScoresWhere(scored, "score",
                                   [i \in 1..Len(scored) |-> InPCoreScores(scored[i])])
        eCoreScores == ScoresWhere(scored, "score",
                                   [i \in 1..Len(scored) |-> InECoreScores(scored[i])])
        pCoreAvg == AverageOrZero(pCoreScores)
        eCoreAvg == AverageOrZero(eCoreScores)
    IN [cores |-> scored,
        report |->
            [printed |-> TRUE,
             ranked |-> Rows(scored, "score"),
             stats |-> [k \in PrintedKinds(pCoreScores, eCoreScores) |->
                          [average |-> IF k = "P-Core" THEN pCoreAvg ELSE eCoreAvg]],
             ratio |-> IF pCoreScores # <<>> /\ eCoreScores # <<>>
                       THEN [present |-> TRUE, value |-> KindRatio(pCoreAvg, eCoreAvg)]
                       ELSE NoRatio]]

\* main: GenerateReport(testDuration)
StressReport ==
    /\ prog = "CPUWin" /\ mpc = "report"
    /\ LET r == GenerateReport(cores, TestDuration)
       IN cores' = r.cores /\ report' = r.report
    /\ mpc' = "prompt"
    /\ UNCHANGED <<prog, platform, cin, exitCode, launched, joined, wpc, workCount,
                   g_stopTest, completedCores, allTestsRunning, elapsed, hist, kcall, agg>>

\* main: "Press Enter to exit", `return 0`
StressExit ==
    /\ prog = "CPUWin" /\ mpc = "prompt"
    /\ mpc' = "exit"
    /\ exitCode' = 0
    /\ UNCHANGED <<prog, platform, cin, cores, launched, joined, wpc, workCount,
                   g_stopTest, completedCores, allTestsRunning, elapsed, report,
                   hist, kcall, agg>>

\* StressTestWorker: SetThreadAffinityMask, SetThreadPriority, workCount = 0
StressBind(i) ==
    /\ prog = "CPUWin" /\ wpc[i] = "bind"
    /\ hist' = RecordBind(hist, i, cores[i].affinityMask)
    /\ workCount' = [workCount EXCEPT ![i] = 0]
    /\ wpc' = [wpc EXCEPT ![i] = "loop"]
    /\ UNCHANGED <<prog, platform, cin, mpc, exitCode, cores, launched, joined,
                   g_stopTest, completedCores, allTestsRunning, elapsed, report, kcall, agg>>

\* a worker that polls the flag and never acts on it
AfterStopCheck_Spin(stop) == "loop"

\* a worker that leaves its loop whatever it read
AfterStopCheck_Leave(stop) == "store"

\* a worker that enters the loop body whatever it read
AfterStopCheck_Ignore(stop) == "compute"

\* where StressTestWorker goes after reading the flag in its loop condition:
\* out of the loop, or into the body
AfterStopCheck(stop) == IF stop THEN "store" ELSE "compute"

\* StressTestWorker: the test of `while (!g_stopTest.load())`.  A worker
\* that has completed MaxWork calls finds the flag raised at its next test.
StressCheck(i) ==
    /\ prog = "CPUWin" /\ wpc[i] = "loop"
    /\ g_stopTest \/ workCount[i] < MaxWork
    /\ wpc' = [wpc EXCEPT ![i] = AfterStopCheck(g_stopTest)]
    /\ UNCHANGED <<prog, platform, cin, mpc, exitCode, cores, launched, joined,
                   workCount, g_stopTest, completedCores, allTestsRunning, elapsed,
                   report, hist, kcall, agg>>

\* StressTestWorker: the loop body: ComputeWorkload() returns (its result is
\* dropped) and workCount++, then back to the loop condition
StressCompute(i) ==
    /\ prog = "CPUWin" /\ wpc[i] = "compute"
    /\ workCount' = [workCount EXCEPT ![i] = @ + 1]
    /\ hist' = [hist EXCEPT !.late[i] = IF g_stopTest THEN @ + 1 ELSE @]
    /\ wpc' = [wpc EXCEPT ![i] = "loop"]
    /\ UNCHANGED <<prog, platform, cin, mpc, exitCode, cores, launched, joined,
                   g_stopTest, completedCores, allTestsRunning, elapsed, report,
                   kcall, agg>>

\* StressTestWorker: core.workCompleted.store(workCount), return
StressStore(i) ==
    /\ prog = "CPUWin" /\ wpc[i] = "store"
    /\ cores' = [cores EXCEPT ![i].workCompleted = workCount[i]]
    /\ wpc' = [wpc EXCEPT ![i] = "done"]
    /\ UNCHANGED <<prog, platform, cin, mpc, exitCode, launched, joined, workCount,
                   g_stopTest, completedCores, allTestsRunning, elapsed, report,
                   hist, kcall, agg>>

StressTestWorker(i) ==
    /\ i \in Workers
    /\ (StressBind(i) \/ StressCheck(i) \/ StressCompute(i) \/ StressStore(i))

StressMain ==
    \/ StressDetect
    \/ StressPreflight
    \/ StressLaunch
    \/ StressProgress
    \/ StressSleep
    \/ StressStop
    \/ StressJoin
    \/ StressReport
    \/ StressExit

----------------------------------------------------------------------------
(* CPUWin2.cpp: main and RunComprehensiveBenchmark *)

\* PrintWarning: one turn of `while (true) { getline(cin, input); ... }`.
\* Once the input has ended every later getline fails and leaves input empty.
BenchWarning ==
    /\ prog = "CPUWin2" /\ mpc = "warning"
    /\ \E answer \in (IF cin = "eof" THEN {"eof"} ELSE Answers) :
          /\ cin' = IF answer = "eof" THEN "eof" ELSE "good"
          /\ mpc' = IF answer = "c" \/ answer = "C" THEN "detect" ELSE "warning"
    /\ UNCHANGED <<prog, platform, exitCode, cores, launched, joined, wpc, workCount,
                   g_stopTest, completedCores, allTestsRunning, elapsed, report,
                   hist, kcall, agg>>

\* main: cores = DetectCPUCores(), `return 1` when cores.empty()
BenchDetect ==
    /\ prog = "CPUWin2" /\ mpc = "detect"
    /\ \E ub \in ShiftOutcomes :
          LET cs == DetectCPUCores(platform, ub)
          IN /\ cores' = cs
             /\ wpc' = [i \in 1..Len(cs) |-> "idle"]
             /\ workCount' = [i \in 1..Len(cs) |-> 0]
             /\ hist' = HistFor(Len(cs))
             /\ IF cs = <<>>
                THEN mpc' = "exit" /\ exitCode' = 1
                ELSE mpc' = "init" /\ exitCode' = exitCode
    /\ UNCHANGED <<prog, platform, cin, launched, joined, g_stopTest,
                   completedCores, allTestsRunning, elapsed, report, kcall, agg>>

\* main: completedCores = 0; allTestsRunning = true
BenchInit ==
    /\ prog = "CPUWin2" /\ mpc = "init"
    /\ completedCores' = 0
    /\ allTestsRunning' = TRUE
    /\ mpc' = "launch"
    /\ UNCHANGED <<prog, platform, cin, exitCode, cores, launched, joined, wpc,
                   workCount, g_stopTest, elapsed, report, hist, kcall, agg>>

\* the statements of RunComprehensiveBenchmark, in order
\* a worker body that returns without counting itself
BenchSteps_NoCount ==
    <<"math", "memory", "branch", "cache", "mixed", "overall", "complete">>

\* a worker body that counts itself before it marks its descriptor complete
BenchSteps_CountFirst ==
    <<"math", "memory", "branch", "cache", "mixed", "overall", "count", "complete">>

\* a worker body that leaves the cache kernel out
BenchSteps_NoCache ==
    <<"math", "memory", "branch", "mixed", "overall", "complete", "count">>

BenchSteps ==
    <<"math", "memory", "branch", "cache", "mixed", "overall", "complete", "count">>

\* the statement after s ("done": the function returns)
StepAfter(s) ==
    LET n == IndexOf(BenchSteps, s)
    IN IF n < Len(BenchSteps) THEN BenchSteps[n + 1] ELSE "done"

\* main: `for (auto& core : cores) threads.emplace_back(...)`, one turn at a time
BenchLaunch ==
    /\ prog = "CPUWin2" /\ mpc = "launch"
    /\ IF launched < Len(cores)
       THEN /\ launched' = launched + 1
            /\ wpc' = [wpc EXCEPT ![launched + 1] = BenchSteps[1]]
            /\ mpc' = mpc
       ELSE /\ mpc' = "monitor"
            /\ UNCHANGED <<launched, wpc>>
    /\ UNCHANGED <<prog, platform, cin, exitCode, cores, joined, workCount,
                   g_stopTest, completedCores, allTestsRunning, elapsed, report,
                   hist, kcall, agg>>

\* a monitor loop that never sees the count reach the total
AllCompleted_Never == FALSE

\* the condition of main's monitor loop
AllCompleted == ~(completedCores < Len(cores))

\* main: the test of `while (completedCores < (int)cores.size())`, then
\* PrintProgressBar and the sleep
BenchMonitor ==
    /\ prog = "CPUWin2" /\ mpc = "monitor"
    /\ mpc' = IF AllCompleted THEN "join" ELSE "sleep"
    /\ UNCHANGED <<prog, platform, cin, exitCode, cores, launched, joined, wpc,
                   workCount, g_stopTest, completedCores, allTestsRunning,
                   elapsed, report, hist, kcall, agg>>

\* main: this_thread::sleep_for(chrono::milliseconds(100)) returns
BenchSleep ==
    /\ prog = "CPUWin2" /\ mpc = "sleep"
    /\ mpc' = "monitor"
    /\ UNCHANGED <<prog, platform, cin, exitCode, cores, launched, joined, wpc,
                   workCount, g_stopTest, completedCores, allTestsRunning,
                   elapsed, report, hist, kcall, agg>>

\* main: `for (auto& t : threads) t.join()`, one turn at a time
BenchJoin ==
    /\ prog = "CPUWin2" /\ mpc = "join"
    /\ IF joined < launched
       THEN /\ ThreadFinished(joined + 1)
            /\ joined' = joined + 1
            /\ mpc' = mpc
       ELSE /\ mpc' = "results"
            /\ joined' = joined
    /\ UNCHANGED <<prog, platform, cin, exitCode, cores, launched, wpc, workCount,
                   g_stopTest, completedCores, allTestsRunning, elapsed, report,
                   hist, kcall, agg>>

\* the comparator handed to sort: a.overallScore > b.overallScore
ScoreGreater(a, b) == DGt(a.overallScore, b.overallScore)

\* std::sort(cores.begin(), cores.end(), comp): some permutation in which no
\* element is followed by one that comp orders before it; the order of
\* elements neither of which comp orders before the other is unspecified
StdSort(cs) ==
    {[i \in 1..Len(cs) |-> cs[p[i]]] :
        p \in {q \in Permutations(1..Len(cs)) :
                 \A i, j \in 1..Len(cs) : i < j => ~ScoreGreater(cs[q[j]], cs[q[i]])}}

\* PrintDetailedResults after the sort: the rows of the table
\* PrintDetailedResults: typeScores, the overall scores by core.type; a key
\* exists for the types that occur
TypeScores(sorted) ==
    [t \in {sorted[i].type : i \in 1..Len(sorted)} |->
        ScoresWhere(sorted, "overallScore",
                    [i \in 1..Len(sorted) |-> sorted[i].type = t])]

\* PrintDetailedResults: the four lines printed for one type
TypeStats(scores) ==
    LET avg == Average(scores)
        maxVal == MaxElement(scores)
        minVal == MinElement(scores)
    IN [average |-> avg, best |-> maxVal, worst |-> minVal,
        variance |-> DMul[DDiv[DSub[maxVal, minVal], avg], Dbl[100, 1]]]

DetailedReport(sorted) ==
    LET typeScores == TypeScores(sorted)
    IN [printed |-> TRUE,
        ranked |-> Rows(sorted, "overallScore"),
        stats |-> [t \in DOMAIN typeScores |-> TypeStats(typeScores[t])],
        ratio |-> IF Cardinality(DOMAIN typeScores) > 1
                  THEN [present |-> TRUE,
                        value |-> KindRatio(Average(typeScores["P-Core"]),
                                            Average(typeScores["E-Core"]))]
                  ELSE NoRatio]

\* main: PrintDetailedResults(cores)
BenchResults ==
    /\ prog = "CPUWin2" /\ mpc = "results"
    /\ \E sorted \in StdSort(cores) :
          /\ cores' = sorted
          /\ report' = DetailedReport(sorted)
    /\ mpc' = "pause"
    /\ UNCHANGED <<prog, platform, cin, exitCode, launched, joined, wpc, workCount,
                   g_stopTest, completedCores, allTestsRunning, elapsed, hist, kcall, agg>>

\* main: system("pause"), `return 0`
BenchExit ==
    /\ prog = "CPUWin2" /\ mpc = "pause"
    /\ mpc' = "exit"
    /\ exitCode' = 0
    /\ UNCHANGED <<prog, platform, cin, cores, launched, joined, wpc, workCount,
                   g_stopTest, completedCores, allTestsRunning, elapsed, report,
                   hist, kcall, agg>>

\* the field of CoreInfo that receives kernel k's result
ScoreField(k) ==
    CASE k = "math" -> "mathScore"
      [] k = "memory" -> "memoryScore"
      [] k = "branch" -> "branchScore"
      [] k = "cache" -> "cacheScore"
      [] k = "mixed" -> "mixedScore"

\* the processors a thread may run on after asking for `mask`: a failed
\* SetThreadAffinityMask leaves the thread on the process affinity mask
RunsOn(pl, mask) == IF SetThreadAffinityMask(pl, mask) THEN mask ELSE pl.affinity

\* RunComprehensiveBenchmark: core.<k>Score = <Kernel k>(core.affinityMask, testDuration)
BenchKernel(i) ==
    /\ prog = "CPUWin2" /\ wpc[i] \in KernelSet
    /\ LET k == wpc[i]
           mask == cores[i].affinityMask
       IN \E p \in RunsOn(platform, mask) :
          \E rs \in {KernelReadings(k, TestDurationMs, platform.opMs[p],
                                    platform.setupMs)} :
          \E r \in {Kernel(k, TestDurationMs, rs)} :
             /\ cores' = [cores EXCEPT ![i][ScoreField(k)] = r.score]
             /\ hist' = [RecordBind(hist, i, mask) EXCEPT !.writes[i][k] = @ + 1]
             /\ wpc' = [wpc EXCEPT ![i] = StepAfter(k)]
    /\ UNCHANGED <<prog, platform, cin, mpc, exitCode, launched, joined, workCount,
                   g_stopTest, completedCores, allTestsRunning, elapsed, report, kcall, agg>>

\* an overall score that is the math score alone
OverallScore_MathOnly(c) == c.mathScore

\* the weighted overall score
OverallScore(c) ==
    DAdd[DAdd[DAdd[DAdd[DMul[c.mathScore, Dbl[25, 100]],
                        DMul[c.memoryScore, Dbl[2, 10]]],
                   DMul[c.branchScore, Dbl[2, 10]]],
              DMul[c.cacheScore, Dbl[15, 100]]],
         DMul[c.mixedScore, Dbl[2, 10]]]

\* RunComprehensiveBenchmark: core.overallScore = ...
BenchOverall(i) ==
    /\ prog = "CPUWin2" /\ wpc[i] = "overall"
    /\ cores' = [cores EXCEPT ![i].overallScore = OverallScore(cores[i])]
    /\ wpc' = [wpc EXCEPT ![i] = StepAfter("overall")]
    /\ UNCHANGED <<prog, platform, cin, mpc, exitCode, launched, joined, workCount,
                   g_stopTest, completedCores, allTestsRunning, elapsed, report,
                   hist, kcall, agg>>

\* RunComprehensiveBenchmark: core.testComplete = true
BenchComplete(i) ==
    /\ prog = "CPUWin2" /\ wpc[i] = "complete"
    /\ cores' = [cores EXCEPT ![i].testComplete = TRUE]
    /\ wpc' = [wpc EXCEPT ![i] = StepAfter("complete")]
    /\ UNCHANGED <<prog, platform, cin, mpc, exitCode, launched, joined, workCount,
                   g_stopTest, completedCores, allTestsRunning, elapsed, report,
                   hist, kcall, agg>>

\* RunComprehensiveBenchmark: completedCores++ (one atomic read-modify-write)
BenchCount(i) ==
    /\ prog = "CPUWin2" /\ wpc[i] = "count"
    /\ completedCores' = completedCores + 1
    /\ wpc' = [wpc EXCEPT ![i] = StepAfter("count")]
    /\ UNCHANGED <<prog, platform, cin, mpc, exitCode, cores, launched, joined,
                   workCount, g_stopTest, allTestsRunning, elapsed, report, hist, kcall, agg>>

RunComprehensiveBenchmark(i) ==
    /\ i \in Workers
    /\ (BenchKernel(i) \/ BenchOverall(i) \/ BenchComplete(i) \/ BenchCount(i))

BenchMain ==
    \/ BenchWarning
    \/ BenchDetect
    \/ BenchInit
    \/ BenchLaunch
    \/ BenchMonitor
    \/ BenchSleep
    \/ BenchJoin
    \/ BenchResults
    \/ BenchExit

----------------------------------------------------------------------------
(* The two programs *)

StressNext ==
    \/ StressMain
    \/ \E i \in 1..MaxProcs : StressTestWorker(i)
    \/ Tick

BenchNext ==
    \/ BenchMain
    \/ \E i \in 1..MaxProcs : RunComprehensiveBenchmark(i)

Next == StressNext \/ BenchNext

Spec == Init /\ [][Next]_vars

\* CPUWin alone
StressInit == Init /\ prog = "CPUWin"

StressSpec == StressInit /\ [][StressNext]_vars

\* CPUWin with every thread scheduled again and again and the clock advancing
FairStressSpec ==
    /\ StressInit
    /\ [][StressNext]_vars
    /\ WF_vars(StressMain)
    /\ WF_vars(Tick)
    /\ \A i \in 1..MaxProcs : WF_vars(StressTestWorker(i))

\* CPUWin2 alone
BenchmarkInit == Init /\ prog = "CPUWin2"

BenchSpec == BenchmarkInit /\ [][BenchNext]_vars

\* CPUWin2 with every thread scheduled again and again; the clock advances
\* inside each kernel (an iteration takes a positive time)
FairBenchSpec ==
    /\ BenchmarkInit
    /\ [][BenchNext]_vars
    /\ WF_vars(BenchMain)
    /\ \A i \in 1..MaxProcs : WF_vars(RunComprehensiveBenchmark(i))

----------------------------------------------------------------------------
(* One kernel invocation on its own *)

\* non-decreasing sequences of clock readings: the clock is monotonic
ReadingSeqs ==
    {rs \in UNION {[1..n -> 0..MaxClock] : n \in 3..MaxReads} :
        \A i \in 1..(Len(rs) - 1) : rs[i] <= rs[i + 1]}

KernelInit ==
    /\ prog = "none"
    /\ platform = [records |-> <<>>, q1 |-> "size", q2 |-> "ok", affinity |-> {},
                   opMs |-> <<>>, setupMs |-> 0]
    /\ cin = "good"
    /\ mpc = "exit"
    /\ exitCode = -1
    /\ cores = <<>>
    /\ launched = 0
    /\ joined = 0
    /\ wpc = <<>>
    /\ workCount = <<>>
    /\ g_stopTest = FALSE
    /\ completedCores = 0
    /\ allTestsRunning = FALSE
    /\ elapsed = 0
    /\ report = NoReport
    /\ hist = NoHist
    /\ \E k \in KernelSet, d \in (-1)..MaxDuration, rs \in ReadingSeqs :
          /\ CompleteReadings(d, rs)
          /\ kcall = [NoCall EXCEPT !.k = k, !.duration_ms = d, !.rs = rs]
    /\ agg = NoAgg

\* the invocation runs to its return statement
KernelCall ==
    /\ kcall.k \in KernelSet /\ ~kcall.returned
    /\ LET r == Kernel(kcall.k, kcall.duration_ms, kcall.rs)
       IN kcall' = [kcall EXCEPT !.returned = TRUE,
                                 !.operations = r.operations,
                                 !.elapsedMs = r.elapsedMs,
                                 !.score = r.score]
    /\ UNCHANGED <<prog, platform, cin, mpc, exitCode, cores, launched, joined, wpc,
                   workCount, g_stopTest, completedCores, allTestsRunning, elapsed,
                   report, hist, agg>>

KernelNext == KernelCall

KernelSpec == KernelInit /\ [][KernelNext]_vars

----------------------------------------------------------------------------
(* One report step on its own: GenerateReport / PrintDetailedResults handed *)
(* a list of finished descriptors, twice over                               *)

\* scores (operations per second) a finished descriptor may carry
AggScores == {0, 50, 100}

\* a finished descriptor of program p
FinishedCore(p, coreId, class, ops) ==
    IF p = "CPUWin"
    THEN [CoreInfo1(coreId, [EfficiencyClass |-> class, GroupMask |-> <<{coreId}>>])
             EXCEPT !.workCompleted = ops * TestDuration]
    ELSE [CoreInfo2(coreId, class, "wrap")
             EXCEPT !.overallScore = Dbl[ops, 1], !.testComplete = TRUE]

\* the lists of finished descriptors considered, ids in discovery order
AggInputs(p) ==
    UNION {{[i \in 1..n |-> FinishedCore(p, i - 1, f[i].class, f[i].ops)] :
               f \in [1..n -> [class : 0..MaxClass, ops : AggScores]]} :
           n \in 1..MaxAggCores}

\* a sort whose result for one and the same input changes from call to call
SortOfBuild_PerCall(pick, call) ==
    IF call = 1 THEN pick
    ELSE CHOOSE srt \in StdSort(agg.input) : srt # pick \/ StdSort(agg.input) = {pick}

\* std::sort as built: one algorithm, so the same result for the same input
\* at every call; `pick` is that result for the input under test
SortOfBuild(pick, call) == pick

\* the report step of program p on cs; srt is what the build's sort makes of cs
Aggregate(p, cs, srt) ==
    IF p = "CPUWin" THEN GenerateReport(cs, TestDuration)
    ELSE [cores |-> srt, report |-> DetailedReport(srt)]

AggInit ==
    /\ prog \in {"CPUWin", "CPUWin2"}
    /\ platform = [records |-> <<>>, q1 |-> "size", q2 |-> "ok", affinity |-> {},
                   opMs |-> <<>>, setupMs |-> 0]
    /\ cin = "good"
    /\ mpc = "aggregate"
    /\ exitCode = -1
    /\ \E cs \in AggInputs(prog) :
          /\ cores = cs
          /\ launched = Len(cs)
          /\ joined = Len(cs)
          /\ wpc = [i \in 1..Len(cs) |-> "done"]
          /\ workCount = [i \in 1..Len(cs) |-> IF prog = "CPUWin" THEN cs[i].workCompleted ELSE 0]
          /\ completedCores = IF prog = "CPUWin2" THEN Len(cs) ELSE 0
          /\ \E pick \in (IF prog = "CPUWin2" THEN StdSort(cs) ELSE {cs}) :
                agg = [input |-> cs, sorted |-> pick, runs |-> <<>>]
    /\ g_stopTest = (prog = "CPUWin")
    /\ allTestsRunning = (prog = "CPUWin2")
    /\ elapsed = IF prog = "CPUWin" THEN TestDuration ELSE 0
    /\ report = NoReport
    /\ hist = NoHist
    /\ kcall = NoCall

\* the report step runs on the input, a first and a second time
AggRun ==
    /\ mpc = "aggregate" /\ Len(agg.runs) < 2
    /\ LET out == Aggregate(prog, agg.input,
                            SortOfBuild(agg.sorted, Len(agg.runs) + 1))
       IN /\ cores' = out.cores
          /\ report' = out.report
          /\ agg' = [agg EXCEPT !.runs = Append(@, out)]
    /\ UNCHANGED <<prog, platform, cin, mpc, exitCode, launched, joined, wpc,
                   workCount, g_stopTest, completedCores, allTestsRunning, elapsed,
                   hist, kcall>>

AggNext == AggRun

AggSpec == AggInit /\ [][AggNext]_vars


----------------------------------------------------------------------------
(* Claims *)

\* the coordinator is building or has built the final report
Reporting == mpc \in {"report", "results"} \/ report.printed

\* C1: in both programs the final report is built only after every launched
\* worker has been joined: whenever the coordinator is at or past the report,
\* every core has a thread, every thread has been joined, and every worker's
\* function has returned.
C1_ReportAfterJoin ==
    Reporting =>
        /\ launched = Len(cores)
        /\ joined = launched
        /\ \A i \in Workers : wpc[i] = "done"

C1_Witness ==
    /\ prog = "CPUWin" /\ mpc = "report"
    /\ Len(cores) = 2 /\ joined = 2
    /\ \E i \in Workers : workCount[i] > 0

\* C2: in a benchmark run that reaches the report, every core's worker has
\* written the result of each of the five kernels exactly once; no result
\* is ever written twice.
C2_FiveResultsEach ==
    prog = "CPUWin2" =>
        /\ \A i \in DOMAIN hist.writes : \A k \in KernelSet : hist.writes[i][k] <= 1
        /\ Reporting => /\ DOMAIN hist.writes = Workers
                        /\ \A i \in Workers : \A k \in KernelSet : hist.writes[i][k] = 1

C2_Witness ==
    /\ prog = "CPUWin2" /\ report.printed
    /\ Len(cores) = 2
    /\ \A i \in Workers : \A k \in KernelSet : hist.writes[i][k] = 1

\* C3: in the endurance program, with every thread scheduled fairly, once the
\* duration has elapsed the coordinator raises the stop flag, and once the
\* flag is raised every worker leaves its loop and returns and the
\* coordinator reaches the report.
C3_EnduranceTerminates ==
    /\ (prog = "CPUWin" /\ mpc \in {"progress", "sleep"} /\ DurationElapsed) ~> g_stopTest
    /\ g_stopTest ~> (Reporting /\ \A i \in Workers : wpc[i] = "done")

C3_Witness ==
    /\ prog = "CPUWin" /\ g_stopTest /\ mpc = "report"
    /\ Len(cores) = 2
    /\ \A i \in Workers : wpc[i] = "done" /\ cores[i].workCompleted = MaxWork

\* C4: the stop flag is false until the coordinator stores true, which it
\* does only after the duration has elapsed; the only store ever made is the
\* coordinator's store of true, and the flag never goes back to false.
C4_StopFlagSetOnce ==
    /\ [](g_stopTest => elapsed >= TestDuration)
    /\ [](hist.stores \subseteq {<<"main", TRUE>>})
    /\ [](g_stopTest <=> hist.stores # {})
    /\ [][g_stopTest => g_stopTest']_vars

C4_Witness ==
    /\ prog = "CPUWin" /\ g_stopTest /\ mpc = "join"
    /\ hist.stores = {<<"main", TRUE>>}
    /\ \E i \in Workers : wpc[i] = "loop"

\* C5 (as claimed): a core whose bind request failed has no kernel results
\* in the report. The code drops SetThreadAffinityMask's return value, so
\* this fails.
C5_BindFailureUnavailable ==
    (prog = "CPUWin2" /\ report.printed) =>
        \A i \in Workers :
            hist.bindFailed[i] => \A k \in KernelSet : hist.writes[i][k] = 0

\* C6: when either call of the discovery query pair fails, no core is
\* recorded, no worker is launched, no kernel runs, no report is printed,
\* and the program exits with status 1.
C6_QueryFailureExits ==
    (platform.q1 = "error" \/ platform.q2 = "error") =>
        /\ cores = <<>> /\ launched = 0 /\ wpc = <<>>
        /\ hist.writes = <<>> /\ hist.binds = <<>>
        /\ ~report.printed
        /\ mpc \in {"detect", "warning", "exit"}
        /\ exitCode = IF mpc = "exit" THEN 1 ELSE -1

C6_Witness ==
    /\ prog = "CPUWin2" /\ mpc = "exit" /\ exitCode = 1
    /\ platform.q1 = "size" /\ platform.q2 = "error"
    /\ ProcsOf(platform.records) # {}

\* C7 (as claimed): every recorded core is a P-Core exactly when its
\* efficiency class is 0. CPUWin.cpp labels class 0 an E-Core, so this fails.
C7_ClassZeroIsPerformance ==
    \A i \in Workers :
        cores[i].type = IF cores[i].efficiencyClass = 0 THEN "P-Core" ELSE "E-Core"

\* C8 (as claimed): every core's affinity mask has exactly one bit, and no
\* two cores share a bit. CPUWin.cpp records a whole core's mask and
\* CPUWin2.cpp's shift is undefined from bit 64 on, so this fails.
C8_SelectorsDisjointSingleBit ==
    /\ \A i \in Workers : Cardinality(cores[i].affinityMask) = 1
    /\ \A i, j \in Workers :
          i # j => cores[i].affinityMask \cap cores[j].affinityMask = {}

\* C9 (as claimed): a kernel called with a duration of zero or less returns
\* zero operations and a throughput of 0. The division by the elapsed time
\* is unguarded, so this fails.
C9_ZeroDurationZeroScore ==
    (kcall.returned /\ kcall.duration_ms <= 0) =>
        kcall.operations = 0 /\ kcall.score = Zero

\* C10 (as claimed): the printed rows are in descending score order, rows
\* of equal score in ascending id order. std::sort is not stable and
\* CPUWin.cpp does not sort, so this fails.
C10_RankedDescendingTiesById ==
    report.printed =>
        \A i, j \in 1..Len(report.ranked) :
            i < j => /\ ~DGt(report.ranked[j].score, report.ranked[i].score)
                     /\ report.ranked[i].score = report.ranked[j].score
                            => report.ranked[i].id < report.ranked[j].id

\* the scores of the cores labelled k, as the report reads them
KindScores(k) ==
    ScoresWhere(cores, IF prog = "CPUWin" THEN "score" ELSE "overallScore",
                [i \in 1..Len(cores) |-> cores[i].type = k])

\* the labels that occur among the descriptors
KindsWithMembers == {cores[i].type : i \in 1..Len(cores)}

\* C11 (as claimed): the report has a ratio exactly when both kinds have a
\* member and both kind averages are nonzero, and a ratio that is printed
\* is a finite number. Neither report step tests the averages for zero, so
\* this fails.
C11_RatioIffBothNonzero ==
    report.printed =>
        /\ report.ratio.present <=>
              /\ KindsWithMembers = Kinds
              /\ \A k \in Kinds : Average(KindScores(k)) # Zero
        /\ report.ratio.present => IsFinite(report.ratio.value)

C13_KindStatistics ==
    (prog = "CPUWin2" /\ report.printed) =>
        \A k \in KindsWithMembers :
            /\ k \in DOMAIN report.stats
            /\ report.stats[k].average = Average(KindScores(k))
            /\ report.stats[k].best = MaxElement(KindScores(k))
            /\ report.stats[k].worst = MinElement(KindScores(k))
            /\ report.stats[k].variance =
                  DMul[DDiv[DSub[MaxElement(KindScores(k)), MinElement(KindScores(k))],
                            Average(KindScores(k))],
                       Dbl[100, 1]]
            /\ Len(KindScores(k)) = 1 => report.stats[k].variance = Zero

\* C14: the report has a statistics entry for exactly the kinds that have a
\* member; a kind without members has none.
C14_NoEntryForAbsentKind ==
    report.printed => DOMAIN report.stats = KindsWithMembers

C14_Witness ==
    /\ prog = "CPUWin2" /\ report.printed
    /\ Len(cores) >= 2 /\ KindsWithMembers = {"E-Core"}
    /\ DOMAIN report.stats = {"E-Core"} /\ ~report.ratio.present

\* C15: a ratio that is printed is the average score of the P-Core
\* descriptors divided by the average score of the E-Core descriptors.
C15_RatioIsPOverE ==
    (report.printed /\ report.ratio.present) =>
        report.ratio.value =
            DDiv[Average(KindScores("P-Core")), Average(KindScores("E-Core"))]

C15_Witness ==
    /\ report.printed /\ report.ratio.present /\ Len(cores) = 2
    /\ KindScores("P-Core") = <<Dbl[100, 1]>>
    /\ KindScores("E-Core") = <<Dbl[50, 1]>>
    /\ report.ratio.value = Dbl[2, 1]


\* the descriptor of the core with this id, wherever it stands in the list
CoreById(id) == CHOOSE c \in {cores[j] : j \in 1..Len(cores)} : c.id = id

\* a worker of CPUWin2 that is past the statement computing overallScore
PastOverall(i) == wpc[i] \in {"complete", "count", "done"}

\* C16: in the benchmark program a core's overall score is 0 until its worker
\* has written all five kernel results, is then set once to
\* 0.25*math + 0.2*memory + 0.2*branch + 0.15*cache + 0.2*mixed, and never
\* changes afterwards.
C16_CompositeOnceAfterKernels ==
    /\ [](prog = "CPUWin2" =>
            \A i \in DOMAIN wpc :
                LET c == CoreById(i - 1)
                IN IF PastOverall(i)
                   THEN /\ \A k \in KernelSet : hist.writes[i][k] = 1
                        /\ c.overallScore =
                             DAdd[DAdd[DAdd[DAdd[DMul[c.mathScore, Dbl[25, 100]],
                                                 DMul[c.memoryScore, Dbl[20, 100]]],
                                            DMul[c.branchScore, Dbl[20, 100]]],
                                       DMul[c.cacheScore, Dbl[15, 100]]],
                                  DMul[c.mixedScore, Dbl[20, 100]]]
                   ELSE c.overallScore = Zero)
    /\ [][prog = "CPUWin2" =>
            \A i \in DOMAIN wpc :
                CoreById(i - 1)'.overallScore # CoreById(i - 1).overallScore
                    => wpc[i] = "overall" /\ wpc'[i] = "complete"]_vars

C16_Witness ==
    /\ prog = "CPUWin2" /\ Len(cores) = 2
    /\ wpc[1] = "complete" /\ cores[1].overallScore # Zero
    /\ wpc[2] \in KernelSet /\ cores[2].overallScore = Zero

\* C17: in the endurance program every core's score is 0 until the report,
\* which is built after every worker has returned, and is then the worker's
\* final count divided by the one test duration.
C17_EnduranceScore ==
    prog = "CPUWin" =>
        \A i \in 1..Len(cores) :
            IF report.printed
            THEN /\ wpc[i] = "done"
                 /\ cores[i].score = DDiv[Dbl[workCount[i], 1], Dbl[TestDuration, 1]]
            ELSE cores[i].score = Zero

C17_Witness ==
    /\ prog = "CPUWin" /\ report.printed /\ Len(cores) = 2
    /\ workCount = <<1, 2>>
    /\ cores[1].score = Dbl[1, TestDuration] /\ cores[2].score = Dbl[2, TestDuration]

\* C18: in the benchmark program completedCores is at every moment the number
\* of workers that have returned; it never decreases, and it changes only by
\* one, in the last step of a worker that has written its five results and
\* its overall score.
C18_CompletedCoresCounts ==
    /\ [](prog = "CPUWin2" =>
            completedCores = Cardinality({i \in DOMAIN wpc : wpc[i] = "done"}))
    /\ [][completedCores' >= completedCores]_vars
    /\ [][completedCores' # completedCores =>
            \E i \in DOMAIN wpc :
                /\ wpc[i] = "count" /\ wpc'[i] = "done"
                /\ completedCores' = completedCores + 1
                /\ \A k \in KernelSet : hist.writes[i][k] = 1
                /\ \A j \in DOMAIN wpc : j # i => wpc'[j] = wpc[j]]_vars

C18_Witness ==
    /\ prog = "CPUWin2" /\ mpc = "join" /\ Len(cores) = 2
    /\ completedCores = 2 /\ \A i \in DOMAIN wpc : wpc[i] = "done"

\* C19: a step that changes the descriptor list is discovery (the list was
\* empty), or the report step with every worker joined, or a step of one
\* worker that changes that worker's descriptor alone and leaves its id,
\* type and mask as they were.
C19_OwnDescriptorOnly ==
    [][cores' # cores =>
         \/ cores = <<>>
         \/ /\ joined = Len(cores)
            /\ \A i \in DOMAIN wpc : wpc[i] = "done"
         \/ \E i \in DOMAIN wpc :
               /\ wpc'[i] # wpc[i]
               /\ wpc[i] \notin {"idle", "done"}
               /\ Len(cores') = Len(cores)
               /\ \A j \in 1..Len(cores) : j # i => cores'[j] = cores[j]
               /\ cores'[i].id = cores[i].id
               /\ cores'[i].type = cores[i].type
               /\ cores'[i].affinityMask = cores[i].affinityMask]_vars

C19_Witness ==
    /\ prog = "CPUWin" /\ mpc = "join" /\ Len(cores) = 2
    /\ wpc[1] = "done" /\ cores[1].workCompleted > 0
    /\ wpc[2] = "loop"

\* C20: a worker binds before anything else: a worker of the endurance
\* program has made its one bind request once it is past its first step and
\* before it counts any work, and every kernel of the benchmark program
\* makes its bind request first, before it reads the start time and before
\* its loop runs.
C20_BindFirst ==
    /\ prog = "CPUWin" =>
          \A i \in DOMAIN wpc :
              /\ wpc[i] \in {"loop", "compute", "store", "done"} => hist.binds[i] = 1
              /\ wpc[i] \in {"idle", "bind"} => hist.binds[i] = 0 /\ workCount[i] = 0
    /\ prog = "CPUWin2" =>
          \A i \in DOMAIN wpc : \A k \in KernelSet :
              LET st == Kernel(k, TestDurationMs,
                               KernelReadings(k, TestDurationMs, TestDurationMs, 0)).steps
              IN /\ st[1] = "bind"
                 /\ IndexOf(st, "bind") < IndexOf(st, "start")
                 /\ IndexOf(st, "start") < IndexOf(st, "loop")
                 /\ hist.writes[i][k] = 1 => hist.binds[i] >= 1

C20_Witness ==
    /\ prog = "CPUWin2" /\ Len(cores) = 2
    /\ wpc[1] = "memory" /\ hist.binds[1] = 1 /\ hist.writes[1]["math"] = 1
    /\ wpc[2] = "math" /\ hist.binds[2] = 0

\* C21 (as claimed): discovery records one descriptor per logical processor
\* the platform reports: as many descriptors as logical processors, ids
\* 0, 1, 2, ... in discovery order. CPUWin.cpp records one descriptor per
\* core record, whatever the number of bits of its mask, so this fails.
C21_OnePerLogicalProcessor ==
    (cores # <<>> /\ ~Reporting) =>
        /\ Len(cores) = Cardinality(ProcsOf(platform.records))
        /\ \A i \in 1..Len(cores) : cores[i].id = i - 1

\* C22 (as claimed): every kernel finishes its setup (buffers, random
\* generator) before it reads the start time, so a result written is the
\* throughput of a run whose measured interval holds no setup time. The
\* math, branch and mixed kernels read the start time first, so this fails.
C22_SetupOutsideWindow ==
    prog = "CPUWin2" =>
        \A i \in DOMAIN wpc : \A k \in KernelSet :
            LET st == Kernel(k, TestDurationMs,
                             KernelReadings(k, TestDurationMs, TestDurationMs, 0)).steps
            IN hist.writes[i][k] = 1 =>
                  /\ IndexOf(st, "setup") < IndexOf(st, "start")
                  /\ \E p \in DOMAIN platform.opMs :
                        CoreById(i - 1)[ScoreField(k)] =
                            Kernel(k, TestDurationMs,
                                   KernelReadings(k, TestDurationMs,
                                                  platform.opMs[p], 0)).score

\* C23 (as claimed): when the console input ends at the confirmation, the
\* program takes its abort path: it starts no worker, runs no kernel, prints
\* no report and exits with status 0. CPUWin2.cpp asks again for ever and
\* CPUWin.cpp compares a char it never read, so this fails.
C23_DeclineExitsZero ==
    cin = "eof" =>
        /\ mpc = "exit" /\ exitCode = 0
        /\ launched = 0 /\ ~report.printed
        /\ \A i \in DOMAIN wpc : wpc[i] = "idle" /\ hist.binds[i] = 0

\* C24: in the endurance program a worker is not stopped inside a
\* ComputeWorkload call: a call under way always returns and is counted.
\* After the coordinator has raised the stop flag a worker completes at most
\* one more call, and once it has read the flag as true it goes to its final
\* store without entering the loop body again.
C24_AtMostOneMoreIteration ==
    /\ [](prog = "CPUWin" => \A i \in DOMAIN wpc : hist.late[i] <= 1)
    /\ [][\A i \in DOMAIN wpc :
            (g_stopTest /\ wpc[i] = "loop" /\ wpc'[i] # "loop") => wpc'[i] = "store"]_vars
    /\ [][\A i \in DOMAIN wpc :
            (wpc[i] = "compute" /\ wpc'[i] # "compute")
                => wpc'[i] = "loop" /\ workCount'[i] = workCount[i] + 1]_vars

C24_Witness ==
    /\ prog = "CPUWin" /\ Len(cores) = 2
    /\ wpc[1] = "done" /\ hist.late[1] = 1 /\ cores[1].workCompleted = 1
    /\ wpc[2] = "done" /\ hist.late[2] = 0

\* C25: in the endurance program a descriptor's workCompleted is 0 as long
\* as its worker has not returned; the worker leaves its loop only on reading
\* the stop flag as true, then stores once, and what it stores is the number
\* of ComputeWorkload calls it completed; nothing changes the value later.
C25_WorkStoredOnceAfterStop ==
    /\ [](prog = "CPUWin" =>
            \A i \in DOMAIN wpc :
                cores[i].workCompleted = IF wpc[i] = "done" THEN workCount[i] ELSE 0)
    /\ [][\A i \in DOMAIN wpc :
            /\ (wpc'[i] = "store" /\ wpc[i] # "store") => (wpc[i] = "loop" /\ g_stopTest)
            /\ (wpc[i] = "store" /\ wpc'[i] # "store")
                  => (wpc'[i] = "done" /\ cores'[i].workCompleted = workCount[i])
            /\ wpc[i] = "done"
                  => (wpc'[i] = "done" /\ cores'[i].workCompleted = cores[i].workCompleted)
            /\ workCount'[i] # workCount[i]
                  => (wpc[i] = "compute" /\ workCount'[i] = workCount[i] + 1)]_vars

C25_Witness ==
    /\ prog = "CPUWin" /\ g_stopTest /\ Len(cores) = 2
    /\ wpc[1] = "done" /\ cores[1].workCompleted = 2
    /\ wpc[2] = "compute" /\ workCount[2] = 1 /\ cores[2].workCompleted = 0

\* C26: in the benchmark program, with every thread scheduled fairly and the
\* clock advancing, once the run has started every worker runs its five
\* kernels to their return and finishes, completedCores reaches the number
\* of descriptors, the coordinator leaves its monitor loop, joins every
\* thread and prints the report.
C26_BenchmarkTerminates ==
    (prog = "CPUWin2" /\ allTestsRunning) ~>
        /\ report.printed
        /\ completedCores = Len(cores)
        /\ joined = Len(cores)
        /\ \A i \in DOMAIN wpc :
              wpc[i] = "done" /\ \A k \in KernelSet : hist.writes[i][k] = 1

C26_Witness ==
    /\ prog = "CPUWin2" /\ allTestsRunning /\ mpc = "exit" /\ exitCode = 0
    /\ report.printed /\ Len(cores) = 2 /\ completedCores = 2

\* C27 (as claimed): a benchmark worker makes one bind request for the whole
\* run, before its first kernel, and then runs math, memory, branch, cache
\* and mixed one after the other, each result written before the next kernel
\* starts. Every kernel makes a bind request of its own, so this fails.
C27_BindOnceThenFiveInOrder ==
    prog = "CPUWin2" =>
        \A i \in DOMAIN wpc :
            /\ hist.binds[i] = IF wpc[i] \in {"idle", "math"} THEN 0 ELSE 1
            /\ \A n \in 1..(Len(Kernels) - 1) :
                  hist.writes[i][Kernels[n + 1]] = 1 => hist.writes[i][Kernels[n]] = 1

\* C28: in the benchmark program completedCores never exceeds the number of
\* descriptors marked testComplete, which never exceeds the number of
\* descriptors, so the progress percentage never exceeds 100; a descriptor is
\* marked testComplete only after its worker has written its five kernel
\* results and its overall score.
C28_ProgressWithinTotal ==
    prog = "CPUWin2" =>
        /\ completedCores <= Cardinality({i \in 1..Len(cores) : cores[i].testComplete})
        /\ Cardinality({i \in 1..Len(cores) : cores[i].testComplete}) <= Len(cores)
        /\ cores # <<>> => (completedCores * 100) \div Len(cores) <= 100
        /\ \A i \in DOMAIN wpc :
              CoreById(i - 1).testComplete =>
                  /\ \A k \in KernelSet : hist.writes[i][k] = 1
                  /\ wpc[i] \notin KernelSet \cup {"idle", "overall"}

C28_Witness ==
    /\ prog = "CPUWin2" /\ mpc = "sleep" /\ Len(cores) = 2
    /\ completedCores = 1
    /\ wpc[1] = "count" /\ wpc[2] = "done"
    /\ \A i \in 1..Len(cores) : cores[i].testComplete

\* C29: in both programs a run whose discovery recorded no descriptor starts
\* no thread and never reaches the report: it exits with status 1 straight
\* after discovery. A report that is printed therefore has at least one row
\* and statistics for at least one kind.
C29_NonEmptyBeforeLaunch ==
    /\ cores = <<>> =>
          /\ launched = 0 /\ wpc = <<>>
          /\ mpc \in {"detect", "warning", "exit"}
          /\ mpc = "exit" => exitCode = 1
          /\ ~report.printed
    /\ report.printed => (report.ranked # <<>> /\ DOMAIN report.stats # {})

C29_Witness ==
    /\ prog = "CPUWin2" /\ mpc = "exit" /\ exitCode = 1
    /\ platform.q1 = "size" /\ platform.q2 = "ok"
    /\ Len(platform.records) >= 1
    /\ cores = <<>> /\ launched = 0

====
